---- MODULE Spec2Model ----
(***************************************************************************)
(* A model of re-excel (src/re_excel/src/main.rs): the column codec        *)
(* col_to_letter, the two ingestion adapters parse_csv and parse_excel,    *)
(* the relational serializer to_sql and the request handler                *)
(* convert_handler.                                                        *)
(*                                                                         *)
(* A Rust String is a sequence of one-character strings, so that quoting,  *)
(* escaping and address building are computed character by character.      *)
(* Option<T> is <<>> (None) or <<x>> (Some(x)); Result<T, E> is a record   *)
(* [ok, val].                                                              *)
(***************************************************************************)
EXTENDS Integers, Sequences, FiniteSets, TLC

VARIABLES
    codec,          \* col_to_letter: [col, s], s the Option of the returned String
    sqlrun,         \* to_sql: [wb, sql], sql the Option of the returned String
    parse,          \* parse_workbook: [bytes, filename, result], result an Option
    request,        \* per request: the multipart parts it was sent with
    multipart,      \* per request: the parts next_field() has not yielded yet
    format_opt,     \* per handler call: the local format_opt
    filename_opt,   \* per handler call: the local filename_opt
    file_bytes,     \* per handler call: the local file_bytes
    workbook,       \* per handler call: the local workbook (an Option)
    response        \* per request: the Option of the response sent

vars == <<codec, sqlrun, parse, request, multipart, format_opt, filename_opt,
          file_bytes, workbook, response>>

(***************************************************************************)
(* Bounds of the model.                                                    *)
(***************************************************************************)
MaxCol == 710

MaxStr == 3

MaxCells == 3

MaxRows == 2

MaxCols == 2

MaxSheets == 2

NumRequests == 2

(***************************************************************************)
(* Strings, Option and Result.                                             *)
(***************************************************************************)
None == <<>>

Some(x) == <<x>>

Ok(x) == [ok |-> TRUE, val |-> x]

Err(e) == [ok |-> FALSE, val |-> e]

Q == "'"

Letters == <<"A", "B", "C", "D", "E", "F", "G", "H", "I", "J", "K", "L", "M",
             "N", "O", "P", "Q", "R", "S", "T", "U", "V", "W", "X", "Y", "Z">>

Digits == <<"0", "1", "2", "3", "4", "5", "6", "7", "8", "9">>

RECURSIVE u32_to_string(_)
u32_to_string(n) ==
    IF n < 10 THEN <<Digits[n + 1]>>
    ELSE u32_to_string(n \div 10) \o <<Digits[(n % 10) + 1]>>

(***************************************************************************)
(* col_to_letter: the while loop, one iteration per call of the loop       *)
(* operator; s.insert(0, c) prepends.                                      *)
(***************************************************************************)
RECURSIVE col_to_letter_loop(_, _)
col_to_letter_loop(col, s) ==
    IF col > 0
    THEN LET rem == (col - 1) % 26
         IN  col_to_letter_loop((col - 1) \div 26, <<Letters[rem + 1]>> \o s)
    ELSE s

RECURSIVE col_to_letter_zero_based_loop(_, _)
col_to_letter_zero_based_loop(col, s) ==
    IF col > 0
    THEN LET rem == col % 26
         IN  col_to_letter_zero_based_loop(col \div 26, <<Letters[rem + 1]>> \o s)
    ELSE s

col_to_letter_zero_based(col) == col_to_letter_zero_based_loop(col, <<>>)

col_to_letter(col) == col_to_letter_loop(col, <<>>)

(***************************************************************************)
(* Inverses used to read strings back: the standard bijective base-26      *)
(* decoding (A = 1 .. Z = 26, most significant letter first) and the       *)
(* value of a decimal numeral.                                             *)
(***************************************************************************)
IndexIn(seq, c) == CHOOSE i \in 1..Len(seq) : seq[i] = c

IsUpper(c) == \E i \in 1..26 : Letters[i] = c

IsDigit(c) == \E i \in 1..10 : Digits[i] = c

RECURSIVE DecodeColumn(_)
DecodeColumn(s) ==
    IF s = <<>> THEN 0
    ELSE 26 * DecodeColumn(SubSeq(s, 1, Len(s) - 1)) + IndexIn(Letters, s[Len(s)])

RECURSIVE DecimalValue(_)
DecimalValue(s) ==
    IF s = <<>> THEN 0
    ELSE 10 * DecimalValue(SubSeq(s, 1, Len(s) - 1)) + (IndexIn(Digits, s[Len(s)]) - 1)

(***************************************************************************)
(* The codec alone: col_to_letter applied to a u32 drawn from 0..MaxCol    *)
(* and to 2^31 - 1, the largest integer TLC represents.                    *)
(***************************************************************************)
CodecInputs == (0..MaxCol) \cup {2147483647}

Idle == /\ request = <<>>
        /\ multipart = <<>>
        /\ format_opt = <<>>
        /\ filename_opt = <<>>
        /\ file_bytes = <<>>
        /\ workbook = <<>>
        /\ response = <<>>

InitCodec ==
    /\ \E n \in CodecInputs : codec = [col |-> n, s |-> None]
    /\ sqlrun = None
    /\ parse = None
    /\ Idle

CallColToLetter ==
    /\ codec # None
    /\ codec.s = None
    /\ codec' = [codec EXCEPT !.s = Some(col_to_letter(codec.col))]
    /\ UNCHANGED <<sqlrun, parse, request, multipart, format_opt, filename_opt,
                   file_bytes, workbook, response>>

NextCodec == CallColToLetter

SpecCodec == InitCodec /\ [][NextCodec]_vars

(***************************************************************************)
(* C1: for every positive column index n, col_to_letter(n) is a non-empty  *)
(* string of uppercase letters whose bijective base-26 decoding is n; 1,   *)
(* 26, 27, 702 and 703 give A, Z, AA, ZZ and AAA; and no other index of    *)
(* CodecInputs gives the same string.                                      *)
(***************************************************************************)
CodecReturned == codec # None /\ codec.s # None

C1_RoundTrip ==
    (CodecReturned /\ codec.col > 0) =>
        LET s == codec.s[1]
        IN  /\ s # <<>>
            /\ \A i \in 1..Len(s) : IsUpper(s[i])
            /\ DecodeColumn(s) = codec.col
            /\ (codec.col = 1 => s = <<"A">>)
            /\ (codec.col = 26 => s = <<"Z">>)
            /\ (codec.col = 27 => s = <<"A", "A">>)
            /\ (codec.col = 702 => s = <<"Z", "Z">>)
            /\ (codec.col = 703 => s = <<"A", "A", "A">>)
            /\ \A m \in CodecInputs : (m # codec.col) => col_to_letter(m) # s

C1_Witness ==
    /\ CodecReturned
    /\ codec.col = 703
    /\ codec.s = Some(<<"A", "A", "A">>)

(***************************************************************************)
(* The canonical model: CellData and Workbook.                             *)
(***************************************************************************)
CellData(sheet, address, row, col, data_type, value, formula) ==
    [sheet |-> sheet, address |-> address, row |-> row, col |-> col,
     data_type |-> data_type, value |-> value, formula |-> formula]

SheetMetadata(name, index, hidden) ==
    [name |-> name, index |-> index, hidden |-> hidden]

Workbook(sheets, cells, merged_ranges) ==
    [sheets |-> sheets, cells |-> cells, merged_ranges |-> merged_ranges]

(***************************************************************************)
(* to_sql.  The literal text of the two format strings, then the           *)
(* statement built for one cell and the loop over wb.cells.                *)
(***************************************************************************)
CREATE_TABLE ==
    <<"C", "R", "E", "A", "T", "E", " ", "T", "A", "B", "L", "E", " ", "c",
      "e", "l", "l", "_", "d", "a", "t", "a", " ", "(", "s", "h", "e", "e",
      "t", " ", "T", "E", "X", "T", ",", " ", "a", "d", "d", "r", "e", "s",
      "s", " ", "T", "E", "X", "T", ",", " ", "r", "o", "w", " ", "I", "N",
      "T", "E", "G", "E", "R", ",", " ", "c", "o", "l", " ", "I", "N", "T",
      "E", "G", "E", "R", ",", " ", "d", "a", "t", "a", "_", "t", "y", "p",
      "e", " ", "T", "E", "X", "T", ",", " ", "v", "a", "l", "u", "e", " ",
      "T", "E", "X", "T", ")", ";", "\n">>

INSERT_HEAD ==
    <<"I", "N", "S", "E", "R", "T", " ", "I", "N", "T", "O", " ", "c", "e",
      "l", "l", "_", "d", "a", "t", "a", " ", "V", "A", "L", "U", "E", "S",
      " ", "(">>

INSERT_TAIL ==
    <<")", ";", "\n">>

NULL ==
    <<"N", "U", "L", "L">>

\* str::replace('\'', "''")
RECURSIVE replace_quote(_)
replace_quote(s) ==
    IF s = <<>> THEN <<>>
    ELSE (IF Head(s) = Q THEN <<Q, Q>> ELSE <<Head(s)>>) \o replace_quote(Tail(s))

formula_value(cell) ==
    IF cell.formula # None
    THEN <<Q>> \o replace_quote(cell.formula[1]) \o <<Q>>
    ELSE NULL

insert_stmt_row_col_swapped(cell) ==
    INSERT_HEAD
        \o <<Q>> \o replace_quote(cell.sheet) \o <<Q, ",">>
        \o <<Q>> \o cell.address \o <<Q, ",">>
        \o u32_to_string(cell.col) \o <<",">>
        \o u32_to_string(cell.row) \o <<",">>
        \o <<Q>> \o replace_quote(cell.data_type) \o <<Q, ",">>
        \o <<Q>> \o replace_quote(cell.value) \o <<Q, ",">>
        \o formula_value(cell)
        \o INSERT_TAIL

\* format!("INSERT INTO cell_data VALUES ('{}','{}',{},{},'{}','{}',{});\n", ..)
insert_stmt(cell) ==
    INSERT_HEAD
        \o <<Q>> \o replace_quote(cell.sheet) \o <<Q, ",">>
        \o <<Q>> \o cell.address \o <<Q, ",">>
        \o u32_to_string(cell.row) \o <<",">>
        \o u32_to_string(cell.col) \o <<",">>
        \o <<Q>> \o replace_quote(cell.data_type) \o <<Q, ",">>
        \o <<Q>> \o replace_quote(cell.value) \o <<Q, ",">>
        \o formula_value(cell)
        \o INSERT_TAIL

RECURSIVE to_sql_loop(_, _, _)
to_sql_loop(sql, cells, k) ==
    IF k > Len(cells) THEN sql
    ELSE to_sql_loop(sql \o insert_stmt(cells[k]), cells, k + 1)

to_sql(wb) == to_sql_loop(CREATE_TABLE, wb.cells, 1)

(***************************************************************************)
(* to_sql alone: applied to a Workbook whose cells hold arbitrary field    *)
(* contents.  The first cell has one text field (sheet, address,           *)
(* data_type, value or formula) drawn from every string of at most MaxStr  *)
(* characters over {a, '}; the cells after it are drawn from three fixed   *)
(* cells; a Workbook has at most MaxCells cells.                           *)
(***************************************************************************)
SqlAlphabet == {"a", Q}

RECURSIVE StringsUpTo(_)
StringsUpTo(n) ==
    IF n = 0 THEN {<<>>}
    ELSE LET S == StringsUpTo(n - 1)
         IN  S \cup {Append(s, c) : s \in S, c \in SqlAlphabet}

SqlStrings == StringsUpTo(MaxStr)

SqlRowCol == {<<1, 2>>, <<12, 703>>}

PlainCell(rc) ==
    CellData(<<"S">>, <<"A", "1">>, rc[1], rc[2], <<"T">>, <<"v">>, None)

FirstCells ==
    UNION {
        { [PlainCell(rc) EXCEPT !.sheet = s],
          [PlainCell(rc) EXCEPT !.address = s],
          [PlainCell(rc) EXCEPT !.data_type = s],
          [PlainCell(rc) EXCEPT !.value = s],
          [PlainCell(rc) EXCEPT !.formula = Some(s)] } :
        s \in SqlStrings, rc \in SqlRowCol }

LaterCells ==
    { PlainCell(<<2, 1>>),
      [PlainCell(<<3, 27>>) EXCEPT !.value = <<"O", Q, "B">>],
      [PlainCell(<<10, 10>>) EXCEPT !.formula = Some(<<"a", Q>>)] }

RECURSIVE CellSeqs(_)
CellSeqs(n) ==
    IF n = 0 THEN {<<>>}
    ELSE IF n = 1 THEN {<<c>> : c \in FirstCells}
    ELSE {Append(cs, c) : cs \in CellSeqs(n - 1), c \in LaterCells}

SqlWorkbooks ==
    {Workbook(<<>>, cs, <<>>) : cs \in UNION {CellSeqs(n) : n \in 0..MaxCells}}

InitSql ==
    /\ codec = None
    /\ \E wb \in SqlWorkbooks : sqlrun = [wb |-> wb, sql |-> None]
    /\ parse = None
    /\ Idle

CallToSql ==
    /\ sqlrun # None
    /\ sqlrun.sql = None
    /\ sqlrun' = [sqlrun EXCEPT !.sql = Some(to_sql(sqlrun.wb))]
    /\ UNCHANGED <<codec, parse, request, multipart, format_opt, filename_opt,
                   file_bytes, workbook, response>>

NextSql == CallToSql

SpecSql == InitSql /\ [][NextSql]_vars

(***************************************************************************)
(* Reading the text back.  Each operator takes the set of positions a      *)
(* reader of the text may stand at and gives the set of positions it may   *)
(* stand at after the next piece.  A quoted slot is a quote, the field's   *)
(* characters in order, and a quote; strict, every quote of the field      *)
(* must appear doubled; otherwise a quote of the field may appear doubled  *)
(* or single.                                                              *)
(***************************************************************************)
AfterText(out, S, text) ==
    { i + Len(text) : i \in { j \in S : /\ j + Len(text) - 1 <= Len(out)
                                         /\ SubSeq(out, j, j + Len(text) - 1) = text } }

RECURSIVE AfterContent(_, _, _, _, _)
AfterContent(out, i, f, j, strict) ==
    IF j > Len(f) THEN {i}
    ELSE IF i > Len(out) \/ out[i] # f[j] THEN {}
    ELSE IF f[j] = Q
         THEN (IF i + 1 <= Len(out) /\ out[i + 1] = Q
               THEN AfterContent(out, i + 2, f, j + 1, strict)
               ELSE {})
              \cup (IF strict THEN {} ELSE AfterContent(out, i + 1, f, j + 1, strict))
         ELSE AfterContent(out, i + 1, f, j + 1, strict)

AfterQuoted(out, S, f, strict) ==
    AfterText(out,
              UNION {AfterContent(out, i, f, 1, strict) : i \in AfterText(out, S, <<Q>>)},
              <<Q>>)

AfterInteger(out, S, n) ==
    UNION { { j \in (i + 1)..(Len(out) + 1) :
                /\ \A k \in i..(j - 1) : IsDigit(out[k])
                /\ (j <= Len(out) => ~IsDigit(out[j]))
                /\ (j - i > 1 => out[i] # "0")
                /\ DecimalValue(SubSeq(out, i, j - 1)) = n } : i \in S }

AfterFormula(out, S, formula, strict) ==
    IF formula = None THEN AfterText(out, S, NULL)
    ELSE AfterQuoted(out, S, formula[1], strict)

\* One INSERT carrying `cell`, its values in the CREATE statement's column
\* order: sheet, address, row, col, data_type, value, formula.
AfterInsert(out, S, cell, strict) ==
    LET p0 == AfterText(out, S, INSERT_HEAD)
        p1 == AfterText(out, AfterQuoted(out, p0, cell.sheet, strict), <<",">>)
        p2 == AfterText(out, AfterQuoted(out, p1, cell.address, strict), <<",">>)
        p3 == AfterText(out, AfterInteger(out, p2, cell.row), <<",">>)
        p4 == AfterText(out, AfterInteger(out, p3, cell.col), <<",">>)
        p5 == AfterText(out, AfterQuoted(out, p4, cell.data_type, strict), <<",">>)
        p6 == AfterText(out, AfterQuoted(out, p5, cell.value, strict), <<",">>)
        p7 == AfterFormula(out, p6, cell.formula, strict)
    IN  AfterText(out, p7, INSERT_TAIL)

RECURSIVE AfterInserts(_, _, _, _, _)
AfterInserts(out, S, cells, k, strict) ==
    IF k > Len(cells) THEN S
    ELSE AfterInserts(out, AfterInsert(out, S, cells[k], strict), cells, k + 1, strict)

\* The whole text is the CREATE declaration and then one INSERT per cell,
\* the k-th carrying the k-th cell, and nothing else.
ReadsAsTable(out, cells, strict) ==
    (Len(out) + 1) \in AfterInserts(out, AfterText(out, {1}, CREATE_TABLE), cells, 1, strict)

SqlReturned == sqlrun # None /\ sqlrun.sql # None

(***************************************************************************)
(* C2: in every INSERT emitted by to_sql, sheet, address, data_type and    *)
(* value are single-quoted literals in which every quote of the field's    *)
(* content is doubled, and formula is the bare token NULL when absent and  *)
(* a quoted, quote-doubled literal when present, for arbitrary contents.   *)
(***************************************************************************)
C2_EveryQuoteDoubled ==
    SqlReturned => ReadsAsTable(sqlrun.sql[1], sqlrun.wb.cells, TRUE)

SHEET1 ==
    <<"S", "h", "e", "e", "t", "1">>

T_String ==
    <<"S", "t", "r", "i", "n", "g">>

T_Number ==
    <<"N", "u", "m", "b", "e", "r">>

T_Boolean ==
    <<"B", "o", "o", "l", "e", "a", "n">>

T_Error ==
    <<"E", "r", "r", "o", "r">>

T_DateTime ==
    <<"D", "a", "t", "e", "T", "i", "m", "e">>

T_DateTimeIso ==
    <<"D", "a", "t", "e", "T", "i", "m", "e", "I", "s", "o">>

T_DurationIso ==
    <<"D", "u", "r", "a", "t", "i", "o", "n", "I", "s", "o">>

DOT_CSV ==
    <<".", "c", "s", "v">>

LowerLetters == <<"a", "b", "c", "d", "e", "f", "g", "h", "i", "j", "k", "l", "m",
                  "n", "o", "p", "q", "r", "s", "t", "u", "v", "w", "x", "y", "z">>

to_lowercase(s) ==
    [i \in 1..Len(s) |-> IF IsUpper(s[i]) THEN LowerLetters[IndexIn(Letters, s[i])]
                         ELSE s[i]]

ends_with(s, suffix) ==
    /\ Len(s) >= Len(suffix)
    /\ SubSeq(s, Len(s) - Len(suffix) + 1, Len(s)) = suffix

(***************************************************************************)
(* The uploaded bytes, as the two libraries read them.  bytes.csv is what  *)
(* csv::Reader::records() yields: a sequence of Result, Ok(record) with    *)
(* the record a non-empty sequence of fields, or Err(e).  bytes.xlsx is    *)
(* what calamine gives: Xlsx::new is Err(e) or Ok of a container with      *)
(* sheet_names and, per sheet, the Result of worksheet_range, a Range      *)
(* being height, width and its Data row by row.                            *)
(***************************************************************************)
Data(tag, v) == [tag |-> tag, v |-> v]

DataEmpty == Data("Empty", <<>>)

Range(height, width, data) == [height |-> height, width |-> width, data |-> data]

\* Range::cells(): every cell of the rectangle, empty ones included, with
\* its row and column counted from the rectangle's corner.
range_cells(range) ==
    [i \in 1..Len(range.data) |->
        <<(i - 1) \div range.width, (i - 1) % range.width, range.data[i]>>]

\* Xlsx::worksheet_range(name): the range of the first sheet of that name.
worksheet_range(excel, name) ==
    excel.ranges[CHOOSE k \in 1..Len(excel.sheet_names) :
                    /\ excel.sheet_names[k] = name
                    /\ \A j \in 1..(k - 1) : excel.sheet_names[j] # name]

(***************************************************************************)
(* to_string of the values a cell may hold.  An f64 is [whole, tenths]     *)
(* (Display prints no fraction when it is zero), an i64 an integer, a      *)
(* CellErrorType its variant, an ExcelDateTime its serial number.          *)
(***************************************************************************)
f64_to_string(f) ==
    u32_to_string(f.whole)
        \o (IF f.tenths = 0 THEN <<>> ELSE <<".", Digits[f.tenths + 1]>>)

i64_to_string(i) ==
    IF i < 0 THEN <<"-">> \o u32_to_string(0 - i) ELSE u32_to_string(i)

bool_to_string(b) ==
    IF b THEN <<"t", "r", "u", "e">> ELSE <<"f", "a", "l", "s", "e">>

error_debug(e) ==
    CASE e = "Div0" -> <<"D", "i", "v", "0">>
      [] e = "NA" -> <<"N", "A">>
      [] e = "Ref" -> <<"R", "e", "f">>
      [] OTHER -> <<"V", "a", "l", "u", "e">>

datetime_to_string(dt) == f64_to_string(dt.value)

\* The match of parse_excel: None for Data::Empty (continue), else
\* Some(<<data_type, value, formula>>).
classify(v) ==
    CASE v.tag = "Empty" -> None
      [] v.tag = "String" -> Some(<<T_String, v.v, None>>)
      [] v.tag = "Float" -> Some(<<T_Number, f64_to_string(v.v), None>>)
      [] v.tag = "Int" -> Some(<<T_Number, i64_to_string(v.v), None>>)
      [] v.tag = "Bool" -> Some(<<T_Boolean, bool_to_string(v.v), None>>)
      [] v.tag = "Error" -> Some(<<T_Error, error_debug(v.v), None>>)
      [] v.tag = "DateTime" -> Some(<<T_DateTime, datetime_to_string(v.v), None>>)
      [] v.tag = "DateTimeIso" -> Some(<<T_DateTimeIso, v.v, None>>)
      [] v.tag = "DurationIso" -> Some(<<T_DurationIso, v.v, None>>)

(***************************************************************************)
(* parse_csv.                                                              *)
(***************************************************************************)
csv_records_has_headers(bytes) ==
    IF bytes.csv = <<>> THEN <<>> ELSE Tail(bytes.csv)

\* ReaderBuilder::new().has_headers(false).from_reader(..).records()
csv_records(bytes) == bytes.csv

csv_cell_address_zero_based(row_idx, col_idx, field) ==
    CellData(SHEET1,
             col_to_letter(col_idx) \o u32_to_string(row_idx + 1),
             row_idx + 1, col_idx + 1, T_String, field, None)

csv_cell(row_idx, col_idx, field) ==
    CellData(SHEET1,
             col_to_letter(col_idx + 1) \o u32_to_string(row_idx + 1),
             row_idx + 1, col_idx + 1, T_String, field, None)

csv_record_cells(row_idx, record) ==
    [j \in 1..Len(record) |-> csv_cell(row_idx, j - 1, record[j])]

csv_error(e) == [msg |-> "csv error", error |-> e]

RECURSIVE parse_csv_skip_bad_loop(_, _, _)
parse_csv_skip_bad_loop(records, row_idx, cells) ==
    IF row_idx >= Len(records)
    THEN Ok(Workbook(<<SheetMetadata(SHEET1, 0, FALSE)>>, cells, <<>>))
    ELSE LET record == records[row_idx + 1]
         IN  IF ~record.ok
             THEN parse_csv_skip_bad_loop(records, row_idx + 1, cells)
             ELSE parse_csv_skip_bad_loop(records, row_idx + 1,
                                          cells \o csv_record_cells(row_idx, record.val))

RECURSIVE parse_csv_loop(_, _, _)
parse_csv_loop(records, row_idx, cells) ==
    IF row_idx >= Len(records)
    THEN Ok(Workbook(<<SheetMetadata(SHEET1, 0, FALSE)>>, cells, <<>>))
    ELSE LET record == records[row_idx + 1]
         IN  IF ~record.ok
             THEN Err(csv_error(record.val))
             ELSE parse_csv_loop(records, row_idx + 1,
                                 cells \o csv_record_cells(row_idx, record.val))

parse_csv_skip_bad(bytes) == parse_csv_skip_bad_loop(csv_records(bytes), 0, <<>>)

parse_csv(bytes) == parse_csv_loop(csv_records(bytes), 0, <<>>)

(***************************************************************************)
(* parse_excel.                                                            *)
(***************************************************************************)
excel_open_error(e) == [msg |-> "Excel open error", error |-> e]

excel_sheet_error(name, e) == [msg |-> "Error reading sheet", sheet |-> name, error |-> e]

excel_sheet_one_based(idx, name) == SheetMetadata(name, idx + 1, FALSE)

excel_sheet(idx, name) == SheetMetadata(name, idx, FALSE)

excel_cell(name, r, c, classified) ==
    CellData(name,
             col_to_letter(c + 1) \o u32_to_string(r + 1),
             r + 1, c + 1, classified[1], classified[2], classified[3])

RECURSIVE excel_range_cells(_, _, _, _)
excel_range_cells(name, triples, k, cells) ==
    IF k > Len(triples) THEN cells
    ELSE LET classified == classify(triples[k][3])
         IN  IF classified = None
             THEN excel_range_cells(name, triples, k + 1, cells)
             ELSE excel_range_cells(name, triples, k + 1,
                      Append(cells, excel_cell(name, triples[k][1], triples[k][2],
                                               classified[1])))

RECURSIVE parse_excel_loop(_, _, _, _)
parse_excel_loop(excel, idx, sheets, cells) ==
    IF idx >= Len(excel.sheet_names)
    THEN Ok(Workbook(sheets, cells, <<>>))
    ELSE LET name == excel.sheet_names[idx + 1]
             range == worksheet_range(excel, name)
         IN  IF ~range.ok
             THEN Err(excel_sheet_error(name, range.val))
             ELSE parse_excel_loop(excel, idx + 1,
                      Append(sheets, excel_sheet(idx, name)),
                      excel_range_cells(name, range_cells(range.val), 1, cells))

parse_excel(bytes) ==
    IF ~bytes.xlsx.ok
    THEN Err(excel_open_error(bytes.xlsx.val))
    ELSE parse_excel_loop(bytes.xlsx.val, 0, <<>>, <<>>)

parse_workbook(bytes, filename) ==
    IF ends_with(to_lowercase(filename), DOT_CSV)
    THEN parse_csv(bytes)
    ELSE parse_excel(bytes)

(***************************************************************************)
(* The uploads the adapters are run on.                                    *)
(*                                                                         *)
(* A delimited text of at most MaxRows records of at most MaxCols fields   *)
(* (all records of one length, as the reader requires): the field at       *)
(* record i, position j holds a text of its own, one chosen field may      *)
(* hold the empty text or a quote instead, and the records may be          *)
(* followed by a record the reader reports as an error.                    *)
(*                                                                         *)
(* A container of at most MaxSheets sheets.  The first sheet's range is    *)
(* unreadable, empty, or a rectangle of at most MaxRows x MaxCols cells    *)
(* that is all Data::Empty, all populated (running through the variants    *)
(* of Data from a chosen one on), or Empty but for one cell; a later       *)
(* sheet's range is unreadable or one populated cell.                      *)
(***************************************************************************)
CsvValue(i, j) ==
    IF i = 1 THEN <<LowerLetters[j]>>
    ELSE IF i = 2 THEN <<Digits[j + 1]>>
    ELSE <<LowerLetters[i], Digits[j + 1]>>

CsvGrid(rows, cols, special) ==
    [i \in 1..rows |->
        Ok([j \in 1..cols |->
                IF special # <<>> /\ special[1] = i /\ special[2] = j
                THEN special[3]
                ELSE CsvValue(i, j)])]

CsvGrids ==
    {<<>>} \cup
    UNION { {CsvGrid(rows, cols, <<>>)} \cup
            {CsvGrid(rows, cols, <<i, j, v>>) :
                i \in 1..rows, j \in 1..cols, v \in {<<>>, <<Q>>}} :
            rows \in 1..MaxRows, cols \in 1..MaxCols }

CsvTexts ==
    { [csv |-> g \o tail, xlsx |-> Err("Zip")] :
        g \in CsvGrids, tail \in {<<>>, <<Err("UnequalLengths")>>} }

DataSamples ==
    << Data("String", <<"x">>),
       Data("Float", [whole |-> 1, tenths |-> 5]),
       Data("Int", 0 - 7),
       Data("Bool", TRUE),
       Data("Error", "Div0"),
       Data("DateTime", [value |-> [whole |-> 45000, tenths |-> 0]]),
       Data("DateTimeIso", <<"2", "0", "2", "4">>),
       Data("DurationIso", <<"P", "T", "1", "H">>) >>

FirstRanges ==
    {Err("Xml"), Ok(Range(0, 0, <<>>))} \cup
    UNION { {Ok(Range(h, w, [i \in 1..(h * w) |-> DataEmpty]))}
            \cup {Ok(Range(h, w, [i \in 1..(h * w) |->
                        DataSamples[((i - 1 + o) % Len(DataSamples)) + 1]])) :
                    o \in 0..(Len(DataSamples) - 1)}
            \cup {Ok(Range(h, w, [i \in 1..(h * w) |->
                        IF i = i0 THEN DataSamples[1] ELSE DataEmpty])) :
                    i0 \in 1..(h * w)} :
            h \in 1..MaxRows, w \in 1..MaxCols }

LaterRanges == {Err("Xml"), Ok(Range(1, 1, <<DataSamples[1]>>))}

RECURSIVE RangeSeqs(_)
RangeSeqs(n) ==
    IF n = 0 THEN {<<>>}
    ELSE IF n = 1 THEN {<<r>> : r \in FirstRanges}
    ELSE {Append(rs, r) : rs \in RangeSeqs(n - 1), r \in LaterRanges}

SheetName(k) == IF k = 2 THEN <<"O", Q, "B">> ELSE <<"S">> \o u32_to_string(k)

SheetNameOrders(n) ==
    { [k \in 1..n |-> SheetName(k)], [k \in 1..n |-> SheetName(n + 1 - k)] }

Containers ==
    UNION { { [csv |-> <<Err("Utf8")>>,
               xlsx |-> Ok([sheet_names |-> names, ranges |-> rs])] :
                names \in SheetNameOrders(n), rs \in RangeSeqs(n) } :
            n \in 0..MaxSheets }

\* Bytes neither library reads, and bytes both read.
OtherUploads ==
    { [csv |-> <<Err("Utf8")>>, xlsx |-> Err("Zip")],
      [csv |-> <<Ok(<<<<"P", "K">>>>)>>,
       xlsx |-> Ok([sheet_names |-> <<SheetName(1)>>,
                    ranges |-> <<Ok(Range(1, 1, <<DataSamples[1]>>))>>])] }

Uploads == CsvTexts \cup Containers \cup OtherUploads

CsvNames == { <<"d", ".", "c", "s", "v">>, <<"D", ".", "C", "s", "V">> }

OtherNames == { <<"d", ".", "x", "l", "s", "x">>, <<"c", "s", "v">> }

FileNames == CsvNames \cup OtherNames

(***************************************************************************)
(* parse_workbook alone.                                                   *)
(***************************************************************************)
InitParse ==
    /\ codec = None
    /\ sqlrun = None
    /\ \E b \in Uploads, f \in FileNames :
           parse = [bytes |-> b, filename |-> f, result |-> None]
    /\ Idle

CallParseWorkbook ==
    /\ parse # None
    /\ parse.result = None
    /\ parse' = [parse EXCEPT
                    !.result = Some(parse_workbook(parse.bytes, parse.filename))]
    /\ UNCHANGED <<codec, sqlrun, request, multipart, format_opt, filename_opt,
                   file_bytes, workbook, response>>

NextParse == CallParseWorkbook

SpecParse == InitParse /\ [][NextParse]_vars

(***************************************************************************)
(* What the upload holds, read off the upload itself: which adapter the    *)
(* file name selects, the positions that hold a value, and the positions   *)
(* that hold a non-empty one.  A position is <<sheet, row, col>>, row and  *)
(* col counted from 0 as the library reports them.                         *)
(***************************************************************************)
ParseReturned == parse # None /\ parse.result # None

ParseReturnedOk == ParseReturned /\ parse.result[1].ok

IsCsvUpload == parse # None /\ parse.filename \in CsvNames

CsvPositions(records) ==
    UNION { {<<SHEET1, i - 1, j - 1>> : j \in 1..Len(records[i].val)} :
            i \in {k \in 1..Len(records) : records[k].ok} }

CsvNonEmptyPositions(records) ==
    { p \in CsvPositions(records) : records[p[2] + 1].val[p[3] + 1] # <<>> }

SheetPositions(name, range) ==
    { <<name, (i - 1) \div range.width, (i - 1) % range.width>> :
        i \in {k \in 1..Len(range.data) : range.data[k].tag # "Empty"} }

ContainerPositions(excel) ==
    UNION { SheetPositions(excel.sheet_names[k], excel.ranges[k].val) :
            k \in {n \in 1..Len(excel.sheet_names) : excel.ranges[n].ok} }

\* The positions of the upload that hold a value the adapter is handed.
SourcePositions ==
    IF IsCsvUpload THEN CsvPositions(parse.bytes.csv)
    ELSE IF parse.bytes.xlsx.ok THEN ContainerPositions(parse.bytes.xlsx.val)
    ELSE {}

\* The positions whose value is neither absent nor empty.
NonEmptySourcePositions ==
    IF IsCsvUpload THEN CsvNonEmptyPositions(parse.bytes.csv)
    ELSE SourcePositions

CellPosition(cell) == <<cell.sheet, cell.row - 1, cell.col - 1>>

CellPositions(cells) == {CellPosition(cells[k]) : k \in 1..Len(cells)}

(***************************************************************************)
(* C5: in the Workbook an adapter returns there is no cell for a source    *)
(* position whose value is empty or absent, and the number of cells is     *)
(* the number of non-empty source positions.                               *)
(***************************************************************************)
C5_Sparsity ==
    ParseReturnedOk =>
        LET cells == parse.result[1].val.cells
        IN  /\ CellPositions(cells) \subseteq NonEmptySourcePositions
            /\ Len(cells) = Cardinality(NonEmptySourcePositions)

(***************************************************************************)
(* C6: for a delimited text every record of which is well formed,          *)
(* parse_csv returns one sheet (Sheet1, index 0, not hidden) and one cell  *)
(* per field of every record, the first included: the cell of the j-th     *)
(* field of the i-th record has row i, col j, type String, the field's     *)
(* text as value and no formula, and the cells are in record order and in  *)
(* field order within a record.                                            *)
(***************************************************************************)
WellFormedCsv ==
    /\ IsCsvUpload
    /\ \A i \in 1..Len(parse.bytes.csv) : parse.bytes.csv[i].ok

RECURSIVE FieldsBefore(_, _)
FieldsBefore(records, i) ==
    IF i <= 1 THEN 0 ELSE FieldsBefore(records, i - 1) + Len(records[i - 1].val)

C6_CsvCells ==
    (ParseReturned /\ WellFormedCsv) =>
        LET records == parse.bytes.csv
            res == parse.result[1]
        IN  /\ res.ok
            /\ res.val.sheets = <<[name |-> SHEET1, index |-> 0, hidden |-> FALSE]>>
            /\ Len(res.val.cells) = FieldsBefore(records, Len(records) + 1)
            /\ \A i \in 1..Len(records) : \A j \in 1..Len(records[i].val) :
                   LET cell == res.val.cells[FieldsBefore(records, i) + j]
                   IN  /\ cell.sheet = SHEET1
                       /\ cell.row = i
                       /\ cell.col = j
                       /\ cell.data_type = <<"S", "t", "r", "i", "n", "g">>
                       /\ cell.value = records[i].val[j]
                       /\ cell.formula = None
                       /\ cell.address = <<Letters[j]>> \o u32_to_string(i)

C6_Witness ==
    /\ ParseReturned
    /\ WellFormedCsv
    /\ parse.bytes.csv = <<Ok(<<<<"a">>, <<"b">>>>), Ok(<<<<"1">>, <<"2">>>>)>>
    /\ LET cells == parse.result[1].val.cells
       IN  /\ [k \in 1..Len(cells) |-> cells[k].address]
                = << <<"A", "1">>, <<"B", "1">>, <<"A", "2">>, <<"B", "2">> >>
           /\ [k \in 1..Len(cells) |-> cells[k].value]
                = << <<"a">>, <<"b">>, <<"1">>, <<"2">> >>

(***************************************************************************)
(* C7: every cell of a returned Workbook has row >= 1 and col >= 1 and an  *)
(* address that is col_to_letter(col) followed by the decimal numeral of   *)
(* row, its letter part not empty, where (col, row) is a position the      *)
(* library reported, plus one; each reported position the adapter keeps    *)
(* has one cell.                                                           *)
(***************************************************************************)
LetterPart(address) ==
    SubSeq(address, 1,
           Cardinality({i \in 1..Len(address) :
                           \A k \in 1..i : IsUpper(address[k])}))

DigitPart(address) ==
    SubSeq(address, Len(LetterPart(address)) + 1, Len(address))

C7_Address ==
    ParseReturnedOk =>
        LET cells == parse.result[1].val.cells
        IN  /\ \A k \in 1..Len(cells) :
                   LET cell == cells[k]
                       letters == LetterPart(cell.address)
                       digits == DigitPart(cell.address)
                   IN  /\ cell.row >= 1
                       /\ cell.col >= 1
                       /\ letters # <<>>
                       /\ digits # <<>>
                       /\ \A i \in 1..Len(digits) : IsDigit(digits[i])
                       /\ digits[1] # "0"
                       /\ DecodeColumn(letters) = cell.col
                       /\ DecimalValue(digits) = cell.row
                       /\ cell.address = col_to_letter(cell.col) \o u32_to_string(cell.row)
            /\ CellPositions(cells) = SourcePositions
            /\ Len(cells) = Cardinality(SourcePositions)

C7_Witness ==
    /\ ParseReturnedOk
    /\ ~IsCsvUpload
    /\ Len(parse.bytes.xlsx.val.sheet_names) = 2
    /\ \E k \in 1..Len(parse.result[1].val.cells) :
           LET cell == parse.result[1].val.cells[k]
           IN  /\ cell.address = <<"B", "2">>
               /\ cell.row = 2
               /\ cell.col = 2
               /\ cell.sheet = <<"O", Q, "B">>

(***************************************************************************)
(* C8: for a container reporting n sheet names, a successful parse_excel   *)
(* returns n sheets, their names the reported names in the reported        *)
(* order, their index values 0..n-1 in that order, each not hidden.        *)
(***************************************************************************)
C8_SheetOrder ==
    (ParseReturnedOk /\ ~IsCsvUpload) =>
        LET names == parse.bytes.xlsx.val.sheet_names
            sheets == parse.result[1].val.sheets
        IN  /\ Len(sheets) = Len(names)
            /\ \A k \in 1..Len(names) :
                   sheets[k] = [name |-> names[k], index |-> k - 1, hidden |-> FALSE]

C8_Witness ==
    /\ ParseReturnedOk
    /\ ~IsCsvUpload
    /\ parse.bytes.xlsx.val.sheet_names = << <<"O", Q, "B">>, <<"S", "1">> >>
    /\ Len(parse.result[1].val.sheets) = 2
    /\ parse.result[1].val.sheets[2].index = 1

(***************************************************************************)
(* convert_handler.                                                        *)
(*                                                                         *)
(* A multipart part is [name, file_name, text, bytes]: text is the part's  *)
(* data as String::from_utf8 reads it, bytes the same data as the csv and  *)
(* calamine readers read it.  A response is [status, content_type, body];  *)
(* content_type is None when the handler sets none.  A body is a message   *)
(* or a payload: [kind, message, wb, text] with kind "message" and the     *)
(* message, or kind the format name with, for json, yaml and xml, the      *)
(* Workbook the serde serializer was given and, for sql, to_sql's text.    *)
(***************************************************************************)
OK == 200

BAD_REQUEST == 400

INTERNAL_SERVER_ERROR == 500

NoBytes == [csv |-> <<>>, xlsx |-> Err("Zip")]

NoMessage == [msg |-> "", sheet |-> <<>>, error |-> ""]

request_error(text) == [msg |-> text, sheet |-> <<>>, error |-> ""]

Message(status, m) ==
    [status |-> status, content_type |-> None,
     body |-> [kind |-> "message", message |-> m, wb |-> None, text |-> <<>>]]

Payload(content_type, format, wb, text) ==
    [status |-> OK, content_type |-> Some(content_type),
     body |-> [kind |-> format, message |-> NoMessage, wb |-> wb, text |-> text]]

\* The two match format.as_str() of the handler, on a parsed workbook.
serialize(format, wb) ==
    CASE format = "json" -> Payload("application/json", format, Some(wb), <<>>)
      [] format = "yaml" -> Payload("application/x-yaml", format, Some(wb), <<>>)
      [] format = "xml" -> Payload("application/xml", format, Some(wb), <<>>)
      [] format = "sql" -> Payload("text/plain", format, None, to_sql(wb))
      [] OTHER -> Message(BAD_REQUEST, request_error("Unsupported format"))

\* The handler from the end of the field loop on: the local workbook and
\* the response.
convert(format, filename, bytes) ==
    IF format = None
    THEN [workbook |-> None,
          response |-> Message(BAD_REQUEST, request_error("Missing 'format'"))]
    ELSE IF filename = None
    THEN [workbook |-> None,
          response |-> Message(BAD_REQUEST, request_error("Missing file name"))]
    ELSE LET parsed == parse_workbook(bytes, filename[1])
         IN  IF ~parsed.ok
             THEN [workbook |-> None,
                   response |-> Message(INTERNAL_SERVER_ERROR, parsed.val)]
             ELSE [workbook |-> Some(parsed.val),
                   response |-> serialize(format[1], parsed.val)]

\* The locals of one call of convert_handler are that call's own.
SharedSlot(r) == 1

Slot(r) == r

Requests == DOMAIN request

Reading(r) == response[r] = None /\ multipart[r] # <<>>

\* One turn of the loop over multipart.next_field().
NextField(r) ==
    /\ Reading(r)
    /\ LET field == Head(multipart[r])
       IN  /\ multipart' = [multipart EXCEPT ![r] = Tail(@)]
           /\ \/ /\ field.name = "format"
                 /\ format_opt' = [format_opt EXCEPT ![Slot(r)] = Some(field.text)]
                 /\ UNCHANGED <<filename_opt, file_bytes>>
              \/ /\ field.name = "file"
                 /\ filename_opt' = [filename_opt EXCEPT ![Slot(r)] = field.file_name]
                 /\ file_bytes' = [file_bytes EXCEPT ![Slot(r)] = field.bytes]
                 /\ UNCHANGED format_opt
              \/ /\ field.name \notin {"format", "file"}
                 /\ UNCHANGED <<format_opt, filename_opt, file_bytes>>
    /\ UNCHANGED <<codec, sqlrun, parse, request, workbook, response>>

\* The rest of the handler, which awaits nothing.
Respond(r) ==
    /\ response[r] = None
    /\ multipart[r] = <<>>
    /\ LET done == convert(format_opt[Slot(r)], filename_opt[Slot(r)],
                           file_bytes[Slot(r)])
       IN  /\ workbook' = [workbook EXCEPT ![Slot(r)] = done.workbook]
           /\ response' = [response EXCEPT ![r] = Some(done.response)]
    /\ UNCHANGED <<codec, sqlrun, parse, request, multipart, format_opt,
                   filename_opt, file_bytes>>

Next ==
    \/ \E r \in Requests : NextField(r)
    \/ \E r \in Requests : Respond(r)

\* convert_handler is entered once per request r, with the parts parts[r].
Entered(parts) ==
    /\ codec = None
    /\ sqlrun = None
    /\ parse = None
    /\ request = parts
    /\ multipart = parts
    /\ format_opt = [r \in DOMAIN parts |-> None]
    /\ filename_opt = [r \in DOMAIN parts |-> None]
    /\ file_bytes = [r \in DOMAIN parts |-> NoBytes]
    /\ workbook = [r \in DOMAIN parts |-> None]
    /\ response = [r \in DOMAIN parts |-> None]

(***************************************************************************)
(* The requests.  One request alone: a format part or none, a file part    *)
(* or none, in either order, the format one of the four names, a name in   *)
(* another case or an unknown name, the file part with any of the file     *)
(* names or none and any of HandlerUploads; and a few requests with a      *)
(* part of another name or a part sent twice.                              *)
(***************************************************************************)
FormatPart(f) == [name |-> "format", file_name |-> None, text |-> f, bytes |-> NoBytes]

FilePart(file_name, bytes) ==
    [name |-> "file", file_name |-> file_name, text |-> "", bytes |-> bytes]

OtherPart == [name |-> "note", file_name |-> None, text |-> "n", bytes |-> NoBytes]

Formats == {"json", "yaml", "xml", "sql"}

FormatNames == Formats \cup {"JSON", "pdf"}

RECURSIVE PlainRangeSeqs(_)
PlainRangeSeqs(n) ==
    IF n = 0 THEN {<<>>}
    ELSE {Append(rs, r) : rs \in PlainRangeSeqs(n - 1), r \in LaterRanges}

HandlerUploads ==
    { [csv |-> g \o tail, xlsx |-> Err("Zip")] :
        g \in {<<>>} \cup {CsvGrid(rows, 2, <<1, 2, <<Q>>>>) : rows \in 1..MaxRows},
        tail \in {<<>>, <<Err("UnequalLengths")>>} }
    \cup UNION { { [csv |-> <<Err("Utf8")>>,
                    xlsx |-> Ok([sheet_names |-> [k \in 1..n |-> SheetName(n + 1 - k)],
                                 ranges |-> rs])] : rs \in PlainRangeSeqs(n) } :
                 n \in 0..MaxSheets }
    \cup OtherUploads

FormatParts == {<<>>} \cup {<<FormatPart(f)>> : f \in FormatNames}

FileParts ==
    {<<>>} \cup {<<FilePart(n, b)>> : n \in {None} \cup {Some(f) : f \in FileNames},
                                      b \in HandlerUploads}

SingleRequests ==
    UNION { {f \o u, u \o f} : f \in FormatParts, u \in FileParts }
    \cup { <<OtherPart, FormatPart("json"),
             FilePart(Some(<<"d", ".", "c", "s", "v">>), CsvTexts1)>> :
           CsvTexts1 \in {[csv |-> CsvGrid(1, 1, <<>>), xlsx |-> Err("Zip")]} }
    \cup { <<FormatPart("pdf"), FilePart(None, NoBytes), FormatPart("sql"),
             FilePart(Some(<<"c", "s", "v">>), b)>> : b \in OtherUploads }

Init == \E parts \in SingleRequests : Entered([r \in {1} |-> parts])

Spec == Init /\ [][Next]_vars

(***************************************************************************)
(* NumRequests requests in flight together, each one of ConcRequests; the  *)
(* steps of their handler calls interleave in every order.                 *)
(***************************************************************************)
ConcRequests ==
    { <<FormatPart("json"),
        FilePart(Some(<<"d", ".", "c", "s", "v">>),
                 [csv |-> CsvGrid(1, 2, <<>>), xlsx |-> Err("Zip")])>>,
      <<FilePart(Some(<<"d", ".", "x", "l", "s", "x">>),
                 [csv |-> <<Err("Utf8")>>,
                  xlsx |-> Ok([sheet_names |-> <<SheetName(2)>>,
                               ranges |-> <<Ok(Range(1, 1, <<DataSamples[1]>>))>>])]),
        FormatPart("sql")>>,
      <<FormatPart("pdf"),
        FilePart(Some(<<"D", ".", "C", "s", "V">>),
                 [csv |-> CsvGrid(1, 1, <<>>) \o <<Err("UnequalLengths")>>,
                  xlsx |-> Err("Zip")])>>,
      <<FilePart(None, NoBytes)>>,
      <<FormatPart("yaml"),
        FilePart(Some(<<"c", "s", "v">>),
                 [csv |-> CsvGrid(2, 1, <<>>), xlsx |-> Err("Zip")])>> }

InitConc == \E parts \in [1..NumRequests -> ConcRequests] : Entered(parts)

SpecConc == InitConc /\ [][Next]_vars

(***************************************************************************)
(* What a request asks for, read off the state after the field loop, and   *)
(* whether ingesting its upload fails: a record the csv reader reports as  *)
(* an error at any position, a container that does not open, or a sheet    *)
(* at any position whose range cannot be read.                             *)
(***************************************************************************)
Responded(r) == response[r] # None

PicksCsv(r) == filename_opt[r] # None /\ filename_opt[r][1] \in CsvNames

PicksContainer(r) == filename_opt[r] # None /\ filename_opt[r][1] \notin CsvNames

CsvFails(bytes) == \E i \in 1..Len(bytes.csv) : ~bytes.csv[i].ok

OpenFails(bytes) == ~bytes.xlsx.ok

SheetFails(bytes) ==
    /\ bytes.xlsx.ok
    /\ \E k \in 1..Len(bytes.xlsx.val.ranges) : ~bytes.xlsx.val.ranges[k].ok

FirstFailingSheet(bytes) ==
    bytes.xlsx.val.sheet_names[
        CHOOSE k \in 1..Len(bytes.xlsx.val.ranges) :
            /\ ~bytes.xlsx.val.ranges[k].ok
            /\ \A j \in 1..(k - 1) : bytes.xlsx.val.ranges[j].ok]

IngestionFails(r) ==
    \/ PicksCsv(r) /\ CsvFails(file_bytes[r])
    \/ PicksContainer(r) /\ (OpenFails(file_bytes[r]) \/ SheetFails(file_bytes[r]))

IsErrorOnly(resp) ==
    /\ resp.status # OK
    /\ resp.content_type = None
    /\ resp.body.kind = "message"
    /\ resp.body.wb = None
    /\ resp.body.text = <<>>

(***************************************************************************)
(* C3: if ingestion fails at any point, the conversion returns only an     *)
(* error: no Workbook is returned to the handler, no serializer runs, and  *)
(* the response carries one error message (for a sheet, naming the         *)
(* sheet) and no payload.                                                  *)
(***************************************************************************)
C3_IngestionErrorOnly ==
    \A r \in Requests :
        (Responded(r) /\ IngestionFails(r)) =>
            LET resp == response[r][1]
            IN  /\ IsErrorOnly(resp)
                /\ workbook[r] = None
                /\ format_opt[r] # None =>
                      /\ resp.status = INTERNAL_SERVER_ERROR
                      /\ PicksCsv(r) => resp.body.message.msg = "csv error"
                      /\ (PicksContainer(r) /\ OpenFails(file_bytes[r])) =>
                            resp.body.message.msg = "Excel open error"
                      /\ (PicksContainer(r) /\ SheetFails(file_bytes[r])) =>
                            /\ resp.body.message.msg = "Error reading sheet"
                            /\ resp.body.message.sheet = FirstFailingSheet(file_bytes[r])

C3_Witness ==
    \E r \in Requests :
        /\ Responded(r)
        /\ format_opt[r] = Some("json")
        /\ PicksContainer(r)
        /\ SheetFails(file_bytes[r])
        /\ Len(file_bytes[r].xlsx.val.ranges) = 2
        /\ file_bytes[r].xlsx.val.ranges[1].ok
        /\ response[r][1].status = INTERNAL_SERVER_ERROR
        /\ response[r][1].body.message.sheet = <<"S", "1">>

(***************************************************************************)
(* C4: a request whose format is not exactly one of json, yaml, xml, sql   *)
(* ends in a request error (BAD_REQUEST) with no payload, whatever the     *)
(* uploaded file's name and bytes are.                                     *)
(***************************************************************************)
C4_UnknownFormatIsRequestError ==
    \A r \in Requests :
        (Responded(r) /\ (format_opt[r] = None \/ format_opt[r][1] \notin Formats)) =>
            /\ response[r][1].status = BAD_REQUEST
            /\ IsErrorOnly(response[r][1])

(***************************************************************************)
(* C10: in every interleaving of the requests in flight, each request's    *)
(* outcome is the outcome of the handler run alone on that request's own   *)
(* parts.                                                                  *)
(***************************************************************************)
RECURSIVE read_fields(_, _)
read_fields(parts, locals) ==
    IF parts = <<>> THEN locals
    ELSE LET field == Head(parts)
         IN  read_fields(Tail(parts),
                 IF field.name = "format"
                 THEN [locals EXCEPT !.format_opt = Some(field.text)]
                 ELSE IF field.name = "file"
                 THEN [locals EXCEPT !.filename_opt = field.file_name,
                                     !.file_bytes = field.bytes]
                 ELSE locals)

Alone(parts) ==
    LET locals == read_fields(parts, [format_opt |-> None, filename_opt |-> None,
                                      file_bytes |-> NoBytes])
    IN  convert(locals.format_opt, locals.filename_opt, locals.file_bytes)

C10_OutcomeAsAlone ==
    \A r \in Requests :
        Responded(r) =>
            /\ response[r][1] = Alone(request[r]).response
            /\ workbook[r] = Alone(request[r]).workbook

C10_Witness ==
    /\ Requests = 1..NumRequests
    /\ Responded(1)
    /\ response[1][1].status = OK
    /\ ~Responded(2)
    /\ request[2] # request[1]
    /\ Len(multipart[2]) = 1
    /\ Len(request[2]) = 2

====
